---- MODULE Spec2Model ----
(***************************************************************************)
(* Model of scripts/create_release.py (TinaKit release package creator).   *)
(*                                                                         *)
(* The script is one sequential function, create_release_package.  Its     *)
(* state is the file system it reads (the project root) and writes (the    *)
(* release directory: the staging tree, the ZIP archive and the checksum   *)
(* manifest), its local variables, and the position of control.  A path is *)
(* the sequence of its components; a file name is a string.                *)
(***************************************************************************)
EXTENDS Integers, Sequences, FiniteSets, Bags, TLC

\* ------------------------------------------------------------------ bounds
\* The most project-root entries (files or empty directories) a modelled
\* project holds beside the script itself.
MaxLeaves == 3

\* ------------------------------------------------------- program constants
ReleaseName == "tinakit-v1.0.0"
ZipName == "tinakit-v1.0.0.zip"
ChecksumsName == "checksums.txt"

source_dirs == <<"include", "src", "examples", "tests", "docs", "third_party">>

important_files == <<"README.md", "CHANGELOG.md", "CMakeLists.txt", "LICENSE", ".gitignore">>

ignore_patterns ==
    {"*.obj", "*.exe", "*.dll", "*.lib", "*.pdb",
     "__pycache__", "*.pyc", ".git*", "build*", "cmake-build-*"}

windows_build == <<"build_windows.bat">>
unix_build == <<"build_unix.sh">>
install_guide == <<"INSTALL.md">>
version_info == <<"VERSION.txt">>

\* Exit status of the interpreter: 0 when the module body returns, 1 when an
\* exception leaves create_release_package uncaught.
ExitNone == -1
ExitSuccess == 0
ExitUncaught == 1

\* -------------------------------------------------------------- path helpers
Range(s) == {s[i] : i \in 1..Len(s)}

IsPrefix(d, p) == Len(d) <= Len(p) /\ SubSeq(p, 1, Len(d)) = d

IsProperPrefix(d, p) == Len(d) < Len(p) /\ SubSeq(p, 1, Len(d)) = d

Prefixes(p) == {SubSeq(p, 1, k) : k \in 1..(Len(p) - 1)}

\* The names os.scandir lists in directory dir of the tree (files, dirs).
Children(files, dirs, dir) ==
    {p[Len(dir) + 1] : p \in {q \in files \cup dirs : IsProperPrefix(dir, q)}}

\* fnmatch.fnmatchcase for patterns made of literal characters and '*'.
RECURSIVE fnmatch(_, _)
fnmatch(name, pat) ==
    IF Len(pat) = 0 THEN Len(name) = 0
    ELSE IF Head(pat) = "*"
         THEN \E k \in 0..Len(name) :
                  fnmatch(SubSeq(name, k + 1, Len(name)), Tail(pat))
         ELSE /\ Len(name) > 0
              /\ Head(name) = Head(pat)
              /\ fnmatch(Tail(name), Tail(pat))

\* Variant of Ignored that compares the names with the patterns as plain
\* strings instead of globbing.
IgnoredExact(names) == names \cap ignore_patterns

\* shutil.ignore_patterns(...)(dir, names): the names to skip.
Ignored(names) == {n \in names : \E pat \in ignore_patterns : fnmatch(n, pat)}

\* shutil.copytree(src, dst, ignore=...): the files and the directories (both
\* relative to the project root, which is also how they sit under release_dir)
\* that the recursive copy of directory src creates.  Every level lists the
\* directory, drops the ignored names, recurses into sub-directories and
\* copies the files.
RECURSIVE CopyTreeFiles(_, _, _)
CopyTreeFiles(files, dirs, src) ==
    LET names == Children(files, dirs, src) \ Ignored(Children(files, dirs, src))
        here == {src \o <<n>> : n \in names}
    IN  (here \cap files) \cup
        UNION {CopyTreeFiles(files, dirs, d) : d \in here \cap dirs}

RECURSIVE CopyTreeDirs(_, _, _)
CopyTreeDirs(files, dirs, src) ==
    LET names == Children(files, dirs, src) \ Ignored(Children(files, dirs, src))
        here == {src \o <<n>> : n \in names}
    IN  {src} \cup UNION {CopyTreeDirs(files, dirs, d) : d \in here \cap dirs}

\* ------------------------------------------------------------ the inputs
\* What a project root may hold beside scripts/create_release.py.  kind "f"
\* is a regular file, "x" a regular file with the executable bit, "d" an empty
\* directory; the directories above a leaf exist with it.
Candidates ==
    { [path |-> <<"src", "foo.cpp">>, kind |-> "f"],
      [path |-> <<"src", "a.obj">>, kind |-> "f"],
      [path |-> <<"src", ".git", "config">>, kind |-> "f"],
      [path |-> <<"docs", "build_notes.md">>, kind |-> "f"],
      [path |-> <<"docs", "run.sh">>, kind |-> "x"],
      [path |-> <<"include", "tinakit", "tinakit.hpp">>, kind |-> "f"],
      [path |-> <<"third_party">>, kind |-> "d"],
      [path |-> <<"tests">>, kind |-> "f"],
      [path |-> <<"README.md">>, kind |-> "f"],
      [path |-> <<".gitignore">>, kind |-> "f"],
      [path |-> <<"LICENSE">>, kind |-> "d"],
      [path |-> <<"notes.txt">>, kind |-> "f"] }

ScriptPath == <<"scripts", "create_release.py">>

FilesOf(leaves) == {l.path : l \in {m \in leaves : m.kind # "d"}} \cup {ScriptPath}

ExecOf(leaves) == {l.path : l \in {m \in leaves : m.kind = "x"}}

DirsOf(leaves) ==
    {l.path : l \in {m \in leaves : m.kind = "d"}}
        \cup UNION {Prefixes(l.path) : l \in leaves} \cup Prefixes(ScriptPath)

\* ------------------------------------------------------------------ state
VARIABLES
    projFiles,    \* regular files under project_root (paths relative to it)
    projDirs,     \* directories under project_root
    projExec,     \* the files under project_root with an executable bit
    rootExists,   \* project_root exists
    relExists,    \* project_root/release exists
    stKind,       \* release_dir: "absent", "dir" or "file"
    stFiles,      \* regular files under release_dir (relative to it)
    stDirs,       \* directories under release_dir
    stExec,       \* the files under release_dir with an executable bit
    zipState,     \* zip_path: "absent" or "present"
    zipEntries,   \* the archive's entries: a bag of archive paths
    zipOpen,      \* the ZipFile writer of line 230 is open
    visited,      \* the directories os.walk has yielded so far
    ckState,      \* checksums_file: "absent", "empty" or "written"
    ckSha,        \* the SHA256 line of checksums_file (-1: none)
    ckMd5,        \* the MD5 line of checksums_file (-1: none)
    pc,           \* position of control in create_release_package
    idx,          \* index of the running for loop (lines 48, 64)
    sha256_hash,  \* local of line 252 (-1: unset)
    md5_hash,     \* local of line 253 (-1: unset)
    err,          \* the exception that left the function ("none")
    failedAt,     \* the position that raised it ("none")
    exitStatus,   \* the process's exit status (ExitNone while running)
    stdout,       \* what the run printed, as a set of tags
    stderr,       \* what the interpreter wrote to standard error
    rootAtStart,  \* history: project_root existed when the run started
    staleAtStart  \* history: the run started over files of an earlier run

proj == <<projFiles, projDirs, projExec>>
staging == <<stKind, stFiles, stDirs, stExec>>
archive == <<zipState, zipEntries>>
manifest == <<ckState, ckSha, ckMd5>>
hashes == <<sha256_hash, md5_hash>>
history == <<rootAtStart, staleAtStart>>

vars ==
    <<projFiles, projDirs, projExec, rootExists, relExists, stKind, stFiles, stDirs, stExec,
      zipState, zipEntries, zipOpen, visited, ckState, ckSha, ckMd5, pc, idx,
      sha256_hash, md5_hash, err, failedAt, exitStatus, stdout, stderr,
      rootAtStart, staleAtStart>>

\* ------------------------------------------------------------ the archive
\* Archive path of a staged file: file_path.relative_to(release_dir.parent).
ArcPath(p) == <<ReleaseName>> \o p

\* The regular files under project_root/release, relative to it.
RelFiles ==
    {ArcPath(p) : p \in stFiles}
        \cup (IF zipState = "present" THEN {<<ZipName>>} ELSE {})
        \cup (IF ckState # "absent" THEN {<<ChecksumsName>>} ELSE {})

\* The directories under project_root/release, itself (<<>>) included.
RelDirs ==
    {<<>>} \cup (IF stKind = "dir" THEN {ArcPath(d) : d \in stDirs \cup {<<>>}} ELSE {})

\* Variant of WalkRoot: the walk starts one level up, at release_dir.parent.
WalkRootParent == <<>>

\* The directory os.walk starts from (line 231), relative to release_dir.parent.
WalkRoot == <<ReleaseName>>

\* The directories os.walk yields, top-down.
WalkDirs == {d \in RelDirs : IsPrefix(WalkRoot, d)}

\* The files os.walk lists in directory d.
WalkFiles(d) == {p \in RelFiles : Len(p) = Len(d) + 1 /\ IsPrefix(d, p)}

\* zipf.write(file_path, arc_path) for every file of one directory.
ZipWrite(entries, paths) == entries (+) [p \in paths |-> 1]

\* ----------------------------------------------------------------- digests
RECURSIVE SumOver(_, _)
SumOver(S, b) ==
    IF S = {} THEN 0
    ELSE LET e == CHOOSE x \in S : TRUE
         IN  b[e] * (Len(e) + Len(e[Len(e)])) + SumOver(S \ {e}, b)

\* The bytes of the archive file: its local entries and, once the writer is
\* closed, the central directory.  Abstracted to a number.
ArchiveBytes(entries, open) ==
    2 * SumOver(DOMAIN entries, entries) + (IF open THEN 0 ELSE 1)

\* get_file_hash(filepath, algorithm): a function of the bytes read and of the
\* algorithm alone.
get_file_hash(bytes, algorithm) ==
    IF algorithm = "sha256" THEN (bytes * 31 + 7) % 257 ELSE (bytes * 17 + 3) % 127

\* ------------------------------------------------------------ control flow
\* Variant of Raise: the exception is caught and printed, as run_command does
\* (lines 23-25), and the process exits with status 0.
RaiseSwallowed(kind) ==
    /\ pc' = "failed"
    /\ failedAt' = pc
    /\ err' = kind
    /\ exitStatus' = ExitSuccess
    /\ stderr' = stderr

\* Variant of Raise: the exception is caught around the stages and the function
\* goes on to its summary.
RaiseAndGoOn(kind) ==
    /\ pc' = "summary"
    /\ failedAt' = pc
    /\ err' = kind
    /\ exitStatus' = ExitNone
    /\ stderr' = stderr

\* An exception leaves create_release_package: nothing catches it (lines
\* 276-277), the interpreter prints the traceback and exits with status 1.
Raise(kind) ==
    /\ pc' = "failed"
    /\ failedAt' = pc
    /\ err' = kind
    /\ exitStatus' = ExitUncaught
    /\ stderr' = stderr \cup {"traceback"}

Goto(next) ==
    /\ pc' = next
    /\ UNCHANGED <<failedAt, err, exitStatus, stderr>>

\* open(path, 'w') followed by f.write: the file exists afterwards; a file that
\* existed keeps its mode, a new one has no executable bit.
WriteText(path) ==
    /\ stFiles' = stFiles \cup {path}
    /\ UNCHANGED <<stKind, stDirs, stExec>>

\* ------------------------------------------------------------------- Init
StaleChoices == {"none", "tree", "file"}

StaleEntries == SetToBag({ArcPath(<<"old.txt">>)})

InitRelease(stale) ==
    /\ relExists = (stale # "none")
    /\ stKind = (IF stale = "tree" THEN "dir" ELSE IF stale = "file" THEN "file" ELSE "absent")
    /\ stFiles = (IF stale = "tree" THEN {<<"old.txt">>, windows_build} ELSE {})
    /\ stDirs = {}
    /\ stExec = (IF stale = "tree" THEN {windows_build} ELSE {})
    /\ zipState = (IF stale = "tree" THEN "present" ELSE "absent")
    /\ zipEntries = (IF stale = "tree" THEN StaleEntries ELSE EmptyBag)
    /\ ckState = (IF stale = "tree" THEN "written" ELSE "absent")
    /\ ckSha = (IF stale = "tree"
                THEN get_file_hash(ArchiveBytes(StaleEntries, FALSE), "sha256") ELSE -1)
    /\ ckMd5 = (IF stale = "tree"
                THEN get_file_hash(ArchiveBytes(StaleEntries, FALSE), "md5") ELSE -1)

InitLocals ==
    /\ pc = "start"
    /\ idx = 0
    /\ visited = {}
    /\ zipOpen = FALSE
    /\ sha256_hash = -1
    /\ md5_hash = -1
    /\ err = "none"
    /\ failedAt = "none"
    /\ exitStatus = ExitNone
    /\ stdout = {}
    /\ stderr = {}
    /\ rootAtStart = TRUE
    /\ staleAtStart = FALSE

Init ==
    /\ InitLocals
    /\ \/ /\ rootExists = TRUE
          /\ \E leaves \in {S \in SUBSET Candidates : Cardinality(S) <= MaxLeaves} :
                 /\ projFiles = FilesOf(leaves)
                 /\ projDirs = DirsOf(leaves)
                 /\ projExec = ExecOf(leaves)
          /\ \E stale \in StaleChoices : InitRelease(stale)
       \/ /\ rootExists = FALSE
          /\ projFiles = {}
          /\ projDirs = {}
          /\ projExec = {}
          /\ InitRelease("none")

\* ---------------------------------------------------------------- actions
\* Lines 30-35: resolve the paths and print the banner.  Nothing checks that
\* project_root exists.
Start ==
    /\ pc = "start"
    /\ stdout' = stdout \cup {"banner"}
    /\ rootAtStart' = rootExists
    /\ staleAtStart' = (stFiles # {} \/ zipState = "present" \/ ckState # "absent")
    /\ Goto("rmtree")
    /\ UNCHANGED <<proj, rootExists, relExists, staging, archive, zipOpen, visited,
                   manifest, idx, hashes>>

\* Variant of RmTree: the staging tree of an earlier run is kept.
RmTreeKeep ==
    /\ pc = "rmtree"
    /\ Goto("mkdir")
    /\ UNCHANGED <<proj, rootExists, relExists, staging, archive, zipOpen, visited,
                   manifest, idx, hashes, stdout, history>>

\* Lines 39-40: if release_dir.exists(): shutil.rmtree(release_dir).  rmtree of
\* a path that is no directory raises NotADirectoryError.
RmTree ==
    /\ pc = "rmtree"
    /\ \/ /\ stKind = "absent"
          /\ UNCHANGED staging
          /\ Goto("mkdir")
       \/ /\ stKind = "dir"
          /\ stKind' = "absent"
          /\ stFiles' = {}
          /\ stDirs' = {}
          /\ stExec' = {}
          /\ Goto("mkdir")
       \/ /\ stKind = "file"
          /\ UNCHANGED staging
          /\ Raise("NotADirectoryError")
    /\ UNCHANGED <<proj, rootExists, relExists, archive, zipOpen, visited, manifest,
                   idx, hashes, stdout, history>>

\* rmtree fails on its first entry (permission denied): nothing is removed.
RmTreeFail ==
    /\ pc = "rmtree"
    /\ stKind = "dir"
    /\ Raise("OSError")
    /\ UNCHANGED <<proj, rootExists, relExists, staging, archive, zipOpen, visited,
                   manifest, idx, hashes, stdout, history>>

\* Line 41: release_dir.mkdir(parents=True, exist_ok=True) creates release_dir
\* and every missing directory above it, project_root included.
MkDir ==
    /\ pc = "mkdir"
    /\ rootExists' = TRUE
    /\ relExists' = TRUE
    /\ stKind' = "dir"
    /\ idx' = 1
    /\ Goto("copy_dirs")
    /\ UNCHANGED <<proj, stFiles, stDirs, stExec, archive, zipOpen, visited, manifest,
                   hashes, stdout, history>>

MkDirFail ==
    /\ pc = "mkdir"
    /\ Raise("OSError")
    /\ UNCHANGED <<proj, rootExists, relExists, staging, archive, zipOpen, visited,
                   manifest, idx, hashes, stdout, history>>

\* Where the loop of lines 48-56 goes after entry idx.
AfterDir ==
    IF idx = Len(source_dirs)
    THEN idx' = 1 /\ Goto("copy_files")
    ELSE idx' = idx + 1 /\ Goto("copy_dirs")

\* Variant of SkipAbsentDir: copytree is called without the exists() test and
\* raises on the missing directory.
SkipAbsentDirRaise ==
    /\ UNCHANGED <<staging, idx>>
    /\ Raise("FileNotFoundError")

\* Line 50, src_path.exists() is false: the entry is skipped.
SkipAbsentDir ==
    /\ UNCHANGED staging
    /\ AfterDir

\* Lines 48-56, one iteration: copy source_dirs[idx] if it exists.  copy2, which
\* copytree uses, keeps each file's mode.  copytree of
\* a regular file raises NotADirectoryError (os.scandir).
CopyDir ==
    /\ pc = "copy_dirs"
    /\ LET src == <<source_dirs[idx]>>
       IN  \/ /\ src \notin projFiles \cup projDirs
              /\ SkipAbsentDir
           \/ /\ src \in projDirs
              /\ stFiles' = stFiles \cup CopyTreeFiles(projFiles, projDirs, src)
              /\ stDirs' = stDirs \cup CopyTreeDirs(projFiles, projDirs, src)
              /\ stExec' = stExec \cup (CopyTreeFiles(projFiles, projDirs, src) \cap projExec)
              /\ UNCHANGED stKind
              /\ AfterDir
           \/ /\ src \in projFiles
              /\ UNCHANGED <<staging, idx>>
              /\ Raise("NotADirectoryError")
    /\ UNCHANGED <<proj, rootExists, relExists, archive, zipOpen, visited, manifest,
                   hashes, stdout, history>>

\* copytree fails: os.makedirs(dst) raises and nothing is copied, or one file
\* cannot be copied, copytree goes on with the others and raises shutil.Error
\* at its end.
CopyDirFail ==
    /\ pc = "copy_dirs"
    /\ LET src == <<source_dirs[idx]>>
       IN  /\ src \in projDirs
           /\ \/ /\ UNCHANGED staging
                 /\ Raise("OSError")
              \/ \E f \in CopyTreeFiles(projFiles, projDirs, src) :
                     /\ stFiles' = stFiles \cup (CopyTreeFiles(projFiles, projDirs, src) \ {f})
                     /\ stDirs' = stDirs \cup CopyTreeDirs(projFiles, projDirs, src)
                     /\ stExec' = stExec \cup
                            ((CopyTreeFiles(projFiles, projDirs, src) \ {f}) \cap projExec)
                     /\ UNCHANGED stKind
                     /\ Raise("Error")
    /\ UNCHANGED <<proj, rootExists, relExists, archive, zipOpen, visited, manifest,
                   idx, hashes, stdout, history>>

\* Where the loop of lines 64-68 goes after entry idx.
AfterFile ==
    IF idx = Len(important_files)
    THEN idx' = 0 /\ Goto("gen_windows")
    ELSE idx' = idx + 1 /\ Goto("copy_files")

\* Lines 64-68, one iteration: copy important_files[idx] if it exists.  No
\* ignore pattern applies here.  copy2 of a directory raises IsADirectoryError.
CopyFile ==
    /\ pc = "copy_files"
    /\ LET src == <<important_files[idx]>>
       IN  \/ /\ src \notin projFiles \cup projDirs
              /\ UNCHANGED staging
              /\ AfterFile
           \/ /\ src \in projFiles
              /\ stFiles' = stFiles \cup {src}
              /\ stExec' = stExec \cup ({src} \cap projExec)
              /\ UNCHANGED <<stKind, stDirs>>
              /\ AfterFile
           \/ /\ src \in projDirs
              /\ UNCHANGED <<staging, idx>>
              /\ Raise("IsADirectoryError")
    /\ UNCHANGED <<proj, rootExists, relExists, archive, zipOpen, visited, manifest,
                   hashes, stdout, history>>

CopyFileFail ==
    /\ pc = "copy_files"
    /\ <<important_files[idx]>> \in projFiles
    /\ Raise("OSError")
    /\ UNCHANGED <<proj, rootExists, relExists, staging, archive, zipOpen, visited,
                   manifest, idx, hashes, stdout, history>>

\* Lines 74-95: write build_windows.bat.
GenWindows ==
    /\ pc = "gen_windows"
    /\ WriteText(windows_build)
    /\ Goto("gen_unix")
    /\ UNCHANGED <<proj, rootExists, relExists, archive, zipOpen, visited, manifest,
                   idx, hashes, stdout, history>>

\* Lines 98-118: write build_unix.sh.
GenUnix ==
    /\ pc = "gen_unix"
    /\ WriteText(unix_build)
    /\ Goto("chmod")
    /\ UNCHANGED <<proj, rootExists, relExists, archive, zipOpen, visited, manifest,
                   idx, hashes, stdout, history>>

\* Variant of ChmodTarget: the wrong script is made executable.
ChmodWindows == windows_build

\* The file os.chmod(..., 0o755) of line 121 is applied to.
ChmodTarget == unix_build

\* Line 121: os.chmod(unix_build, 0o755).
Chmod ==
    /\ pc = "chmod"
    /\ stExec' = stExec \cup {ChmodTarget}
    /\ Goto("gen_install")
    /\ UNCHANGED <<proj, rootExists, relExists, stKind, stFiles, stDirs, archive,
                   zipOpen, visited, manifest, idx, hashes, stdout, history>>

\* Lines 127-200: write INSTALL.md.
GenInstall ==
    /\ pc = "gen_install"
    /\ WriteText(install_guide)
    /\ Goto("gen_version")
    /\ UNCHANGED <<proj, rootExists, relExists, archive, zipOpen, visited, manifest,
                   idx, hashes, stdout, history>>

\* Lines 206-223: write VERSION.txt.
GenVersion ==
    /\ pc = "gen_version"
    /\ WriteText(version_info)
    /\ Goto("zip_open")
    /\ UNCHANGED <<proj, rootExists, relExists, archive, zipOpen, visited, manifest,
                   idx, hashes, stdout, history>>

GenPcs == {"gen_windows", "gen_unix", "chmod", "gen_install", "gen_version"}

\* open or chmod of a generated artifact fails: the artifact is not written.
GenFail ==
    /\ pc \in GenPcs
    /\ Raise("OSError")
    /\ UNCHANGED <<proj, rootExists, relExists, staging, archive, zipOpen, visited,
                   manifest, idx, hashes, stdout, history>>

\* Line 230: zipfile.ZipFile(zip_path, 'w', ZIP_DEFLATED) creates or truncates
\* the archive file and opens the writer.
ZipOpen ==
    /\ pc = "zip_open"
    /\ zipState' = "present"
    /\ zipEntries' = EmptyBag
    /\ zipOpen' = TRUE
    /\ visited' = {}
    /\ Goto("zip_walk")
    /\ UNCHANGED <<proj, rootExists, relExists, staging, manifest, idx, hashes, stdout,
                   history>>

\* The archive file cannot be opened: it is left as it was.
ZipOpenFail ==
    /\ pc = "zip_open"
    /\ Raise("OSError")
    /\ UNCHANGED <<proj, rootExists, relExists, staging, archive, zipOpen, visited,
                   manifest, idx, hashes, stdout, history>>

\* Lines 231-235, one iteration of os.walk: a directory not yet yielded whose
\* parent has been (top-down), and one zipf.write per file in it.
ZipWalk ==
    /\ pc = "zip_walk"
    /\ \E d \in WalkDirs \ visited :
           /\ d = WalkRoot \/ SubSeq(d, 1, Len(d) - 1) \in visited
           /\ zipEntries' = ZipWrite(zipEntries, WalkFiles(d))
           /\ visited' = visited \cup {d}
    /\ Goto("zip_walk")
    /\ UNCHANGED <<proj, rootExists, relExists, staging, zipState, zipOpen, manifest,
                   idx, hashes, stdout, history>>

\* Variant of WriterAfterWith: the writer is not closed when the walk ends.
WriterLeftOpen == TRUE

\* The writer's state once the with block of line 230 is left.
WriterAfterWith == FALSE

\* Lines 235-237: the walk is over, the with block closes the writer (which
\* writes the central directory), and the archive is reported.
ZipClose ==
    /\ pc = "zip_walk"
    /\ WalkDirs \subseteq visited
    /\ zipOpen' = WriterAfterWith
    /\ stdout' = stdout \cup {"zip_created"}
    /\ Goto("ck_open")
    /\ UNCHANGED <<proj, rootExists, relExists, staging, archive, visited, manifest,
                   idx, hashes, history>>

\* zipf.write raises: the with block still closes the writer, and the archive
\* keeps the entries written so far.
ZipWriteFail ==
    /\ pc = "zip_walk"
    /\ zipOpen' = WriterAfterWith
    /\ Raise("OSError")
    /\ UNCHANGED <<proj, rootExists, relExists, staging, archive, visited, manifest,
                   idx, hashes, stdout, history>>

\* Line 251: open(checksums_file, 'w') creates or truncates the manifest.
CkOpen ==
    /\ pc = "ck_open"
    /\ ckState' = "empty"
    /\ ckSha' = -1
    /\ ckMd5' = -1
    /\ Goto("hash_sha256")
    /\ UNCHANGED <<proj, rootExists, relExists, staging, archive, zipOpen, visited,
                   idx, hashes, stdout, history>>

CkOpenFail ==
    /\ pc = "ck_open"
    /\ Raise("OSError")
    /\ UNCHANGED <<proj, rootExists, relExists, staging, archive, zipOpen, visited,
                   manifest, idx, hashes, stdout, history>>

\* Variant of HashInput: the archive is read as it was before the writer closed
\* it, without its central directory.
HashInputUnclosed == ArchiveBytes(zipEntries, TRUE)

\* What get_file_hash reads: the archive file as it is on disk.
HashInput == ArchiveBytes(zipEntries, zipOpen)

\* Line 252: sha256_hash = get_file_hash(zip_path, 'sha256').
HashSha256 ==
    /\ pc = "hash_sha256"
    /\ sha256_hash' = get_file_hash(HashInput, "sha256")
    /\ Goto("hash_md5")
    /\ UNCHANGED <<proj, rootExists, relExists, staging, archive, zipOpen, visited,
                   manifest, idx, md5_hash, stdout, history>>

\* Line 253: md5_hash = get_file_hash(zip_path, 'md5').
HashMd5 ==
    /\ pc = "hash_md5"
    /\ md5_hash' = get_file_hash(HashInput, "md5")
    /\ Goto("ck_write")
    /\ UNCHANGED <<proj, rootExists, relExists, staging, archive, zipOpen, visited,
                   manifest, idx, sha256_hash, stdout, history>>

\* Reading the archive or writing the manifest raises: the with block of line
\* 251 closes the manifest, which stays empty.
CkFail ==
    /\ pc \in {"hash_sha256", "hash_md5", "ck_write"}
    /\ Raise("OSError")
    /\ UNCHANGED <<proj, rootExists, relExists, staging, archive, zipOpen, visited,
                   manifest, idx, hashes, stdout, history>>

\* Lines 255-261: write the manifest's lines, close it and report it.
CkWrite ==
    /\ pc = "ck_write"
    /\ ckState' = "written"
    /\ ckSha' = sha256_hash
    /\ ckMd5' = md5_hash
    /\ stdout' = stdout \cup {"checksums_generated"}
    /\ Goto("summary")
    /\ UNCHANGED <<proj, rootExists, relExists, staging, archive, zipOpen, visited,
                   idx, hashes, history>>

\* Lines 264-277: print the summary and return; the interpreter exits with
\* status 0.
Summary ==
    /\ pc = "summary"
    /\ stdout' = stdout \cup {"success"}
    /\ pc' = "done"
    /\ exitStatus' = ExitSuccess
    /\ UNCHANGED <<failedAt, err, stderr>>
    /\ UNCHANGED <<proj, rootExists, relExists, staging, archive, zipOpen, visited,
                   manifest, idx, hashes, history>>

\* Line 268: zip_path.stat() raises after the first summary lines are printed.
SummaryFail ==
    /\ pc = "summary"
    /\ stdout' = stdout \cup {"success"}
    /\ Raise("OSError")
    /\ UNCHANGED <<proj, rootExists, relExists, staging, archive, zipOpen, visited,
                   manifest, idx, hashes, history>>

\* The script is run again on the same project, over whatever the last run
\* left on disk.
Rerun ==
    /\ pc \in {"done", "failed"}
    /\ pc' = "start"
    /\ idx' = 0
    /\ visited' = {}
    /\ sha256_hash' = -1
    /\ md5_hash' = -1
    /\ err' = "none"
    /\ failedAt' = "none"
    /\ exitStatus' = ExitNone
    /\ stdout' = {}
    /\ stderr' = {}
    /\ UNCHANGED <<proj, rootExists, relExists, staging, archive, zipOpen, manifest,
                   history>>

Next ==
    \/ Start
    \/ RmTree
    \/ RmTreeFail
    \/ MkDir
    \/ MkDirFail
    \/ CopyDir
    \/ CopyDirFail
    \/ CopyFile
    \/ CopyFileFail
    \/ GenWindows
    \/ GenUnix
    \/ Chmod
    \/ GenInstall
    \/ GenVersion
    \/ GenFail
    \/ ZipOpen
    \/ ZipOpenFail
    \/ ZipWalk
    \/ ZipClose
    \/ ZipWriteFail
    \/ CkOpen
    \/ CkOpenFail
    \/ HashSha256
    \/ HashMd5
    \/ CkFail
    \/ CkWrite
    \/ Summary
    \/ SummaryFail
    \/ Rerun

Spec == Init /\ [][Next]_vars

\* ------------------------------------------------------- stages of a run
PcOrder ==
    <<"start", "rmtree", "mkdir", "copy_dirs", "copy_files", "gen_windows",
      "gen_unix", "chmod", "gen_install", "gen_version", "zip_open", "zip_walk",
      "ck_open", "hash_sha256", "hash_md5", "ck_write", "summary", "done">>

Rank(p) == CHOOSE i \in 1..Len(PcOrder) : PcOrder[i] = p

\* The position the run has reached: where it is, or where it failed.
Cur == IF pc = "failed" THEN failedAt ELSE pc

\* The run has completed the reset, copy, generation or archive stage.
ResetDone == Rank(Cur) >= Rank("copy_dirs")
CopyDone == Rank(Cur) >= Rank("gen_windows")
GenerationDone == Rank(Cur) >= Rank("zip_open")
ArchiveDone == Rank(Cur) >= Rank("ck_open")

ResetPcs == {"rmtree", "mkdir"}
CopyPcs == {"copy_dirs", "copy_files"}
ArchivePcs == {"zip_open", "zip_walk"}
ChecksumPcs == {"ck_open", "hash_sha256", "hash_md5", "ck_write"}

AllowListed == Range(source_dirs) \cup Range(important_files)

\* The allow-listed names with nothing of that name at the project root.
AbsentNames == {n \in AllowListed : <<n>> \notin projFiles \cup projDirs}

\* Some component of p from position i on matches an exclude pattern.
HasExcludedComponent(p, i) ==
    \E k \in i..Len(p) : \E pat \in ignore_patterns : fnmatch(p[k], pat)

\* The project's files under an allow-listed directory, and its allow-listed
\* standalone files.
AllowListedFiles ==
    {p \in projFiles : \/ Len(p) >= 2 /\ p[1] \in Range(source_dirs)
                       \/ Len(p) = 1 /\ p[1] \in Range(important_files)}

\* What the copy stage is to leave in the staging tree: the exclude patterns
\* apply to what lies inside an allow-listed directory, not to the standalone
\* files.
ExpectedCopyFiles ==
    {p \in AllowListedFiles : Len(p) = 1 \/ ~HasExcludedComponent(p, 2)}

ExpectedCopyDirs ==
    {d \in projDirs : d[1] \in Range(source_dirs) /\ ~HasExcludedComponent(d, 2)}

Generated == {windows_build, unix_build, install_guide, version_info}

ExpectedStaging == ExpectedCopyFiles \cup Generated

\* ------------------------------------------------------------------ claims

\* C1: once a run has completed the archive stage, the archive's entries are
\* in one-to-one correspondence with the regular files of the staging tree:
\* each staged file is exactly one entry, there is no other entry (neither the
\* archive itself nor checksums.txt), and each entry's path is the file's path
\* relative to the staging tree's parent, so it starts with the release name.
C1_ArchiveBijection ==
    ArchiveDone =>
        /\ BagToSet(zipEntries) = {ArcPath(p) : p \in stFiles}
        /\ \A e \in BagToSet(zipEntries) : CopiesIn(e, zipEntries) = 1 /\ e[1] = ReleaseName
        /\ <<ZipName>> \notin BagToSet(zipEntries)
        /\ <<ChecksumsName>> \notin BagToSet(zipEntries)

\* A run over the leftovers of an earlier one has archived copied files from a
\* sub-directory together with the generated ones, while checksums.txt and the
\* archive sit beside the staging tree.
C1_Witness ==
    /\ pc = "hash_sha256"
    /\ staleAtStart
    /\ ckState # "absent"
    /\ \E p \in stFiles : Len(p) >= 2
    /\ Cardinality(stFiles) >= 6

\* C2 (as stated): right after the copy stage the staging tree holds the
\* present allow-listed directories and standalone files minus everything with
\* a component matching an exclude pattern, the standalone files included.
C2_NoExcludedComponentAnywhere ==
    pc = "gen_windows" =>
        stFiles = {p \in AllowListedFiles : ~HasExcludedComponent(p, 1)}

\* C2 (amended): right after the copy stage the staging tree holds exactly the
\* files of the present allow-listed directories that have no component below
\* the directory's own name matching an exclude pattern, together with every
\* present allow-listed standalone file, whatever its name; nothing else is
\* staged and nothing of these is missing.
C2_StagingAfterCopy ==
    pc = "gen_windows" =>
        /\ stFiles = ExpectedCopyFiles
        /\ stDirs = ExpectedCopyDirs
        /\ \A p \in stFiles : Len(p) >= 2 => ~HasExcludedComponent(p, 2)

\* The copy stage staged .gitignore and a source file, and left out an object
\* file of the same directory.
C2_Witness ==
    /\ pc = "gen_windows"
    /\ <<".gitignore">> \in stFiles
    /\ <<"src", "foo.cpp">> \in stFiles
    /\ <<"src", "a.obj">> \in projFiles
    /\ <<"src", "a.obj">> \notin stFiles

\* C3: whenever a digest is being computed or has been computed in this run,
\* the archive writer is closed and os.walk has yielded every directory.
C3_HashAfterClose ==
    (pc \in {"hash_sha256", "hash_md5"} \/ sha256_hash # -1 \/ md5_hash # -1) =>
        /\ ~zipOpen
        /\ WalkDirs \subseteq visited

\* The second digest is about to be computed over a non-empty archive.
C3_Witness ==
    /\ pc = "hash_md5"
    /\ sha256_hash # -1
    /\ BagCardinality(zipEntries) >= 4

\* C4: when a run has written the manifest, the SHA256 and MD5 it recorded are
\* the digests of the archive file as it is on disk then and at the end of the
\* run.
C4_DigestsMatchArchive ==
    pc \in {"summary", "done"} =>
        /\ ckState = "written"
        /\ ckSha = get_file_hash(ArchiveBytes(zipEntries, zipOpen), "sha256")
        /\ ckMd5 = get_file_hash(ArchiveBytes(zipEntries, zipOpen), "md5")

\* A completed run that replaced the manifest of an earlier archive.
C4_Witness ==
    /\ pc = "done"
    /\ staleAtStart
    /\ ckState = "written"
    /\ ckSha # get_file_hash(ArchiveBytes(StaleEntries, FALSE), "sha256")
    /\ BagCardinality(zipEntries) >= 5

\* C5: whatever earlier runs left on disk, a run that completes leaves a
\* staging tree and an archive whose file sets are determined by the project
\* alone, hence those of a run started on an empty release directory.
C5_IdempotentRebuild ==
    pc = "done" =>
        /\ stFiles = ExpectedStaging
        /\ BagToSet(zipEntries) = {ArcPath(p) : p \in ExpectedStaging}
        /\ \A e \in BagToSet(zipEntries) : CopiesIn(e, zipEntries) = 1

\* A run completed over a staging tree, an archive and a manifest left by an
\* earlier run.
C5_Witness ==
    /\ pc = "done"
    /\ staleAtStart
    /\ ExpectedCopyFiles # {}

\* C6 (as stated): a run ends with the success status whether or not a stage
\* failed.
C6_AlwaysExitsSuccess ==
    pc \in {"done", "failed"} => exitStatus = ExitSuccess

\* C6 (amended): a run ends with status 0 exactly when every stage completed; a
\* failure in any stage leaves the function as an uncaught exception, the
\* interpreter writes the traceback to standard error and the run ends with
\* status 1.
C6_ExitStatus ==
    /\ pc = "done" => exitStatus = ExitSuccess /\ err = "none" /\ stderr = {}
    /\ pc = "failed" => exitStatus = ExitUncaught /\ err # "none" /\ "traceback" \in stderr
    /\ pc \notin {"done", "failed"} => exitStatus = ExitNone

\* A run failed while writing the archive and ended with status 1.
C6_Witness ==
    /\ pc = "failed"
    /\ failedAt = "zip_walk"
    /\ exitStatus = ExitUncaught

\* C7: a run started without a project root fails with a PathError before it
\* creates or changes anything.
C7_PathErrorBeforeMutation ==
    (~rootAtStart /\ pc # "start") =>
        /\ ~rootExists
        /\ ~relExists
        /\ stKind = "absent"
        /\ zipState = "absent"
        /\ ckState = "absent"
        /\ pc \in {"rmtree", "mkdir"} \/ (pc = "failed" /\ err = "PathError")

\* C8, state part: once the staging tree is reset nothing in it lies under an
\* absent allow-listed name, and neither does an entry of the archive once it
\* is written.
C8_NothingUnderAbsent ==
    /\ ResetDone => \A p \in stFiles \cup stDirs : p[1] \notin AbsentNames
    /\ ArchiveDone => \A e \in BagToSet(zipEntries) : Len(e) >= 2 => e[2] \notin AbsentNames

\* C8, step part: the iteration of a copy loop that meets an absent entry does
\* not fail; it goes on to the next entry or the next stage.
C8_AbsenceIsNoError ==
    /\ (pc = "copy_dirs" /\ source_dirs[idx] \in AbsentNames) => pc' # "failed"
    /\ (pc = "copy_files" /\ important_files[idx] \in AbsentNames) => pc' # "failed"

\* C8: an absent allow-listed entry raises no error, and nothing under its name
\* is staged or archived.
C8_AbsentEntriesOmitted == []C8_NothingUnderAbsent /\ [][C8_AbsenceIsNoError]_vars

\* A run with every allow-listed entry absent ran all its stages.
C8_Witness ==
    /\ pc = "done"
    /\ AbsentNames = AllowListed
    /\ exitStatus = ExitSuccess
    /\ stFiles = Generated

\* C9, state part: a run that failed before the checksum stage has announced
\* neither the manifest nor its success, and one that failed before the
\* archive stage completed has not announced the archive.
C9_NoLaterOutput ==
    /\ (pc = "failed" /\ ~ArchiveDone) => stdout \cap {"zip_created", "checksums_generated", "success"} = {}
    /\ (pc = "failed" /\ Rank(failedAt) < Rank("summary")) => "success" \notin stdout
    /\ err # "none" => pc = "failed"

\* C9, step part: control moves from one position to the next of the fixed
\* order or to the failure; after a failure only a new run follows; each output
\* is written by its own stage only; and a failing step removes nothing that is
\* staged.
C9_StageOrder ==
    /\ pc' # pc =>
          \/ pc' = "failed"
          \/ pc \in {"done", "failed"} /\ pc' = "start"
          \/ pc \notin {"done", "failed"} /\ pc' # "start" /\ Rank(pc') = Rank(pc) + 1
    /\ pc = "failed" => pc' = "start"
    /\ staging' # staging => pc \in ResetPcs \cup CopyPcs \cup GenPcs
    /\ archive' # archive => pc \in ArchivePcs
    /\ manifest' # manifest => pc \in ChecksumPcs
    /\ stdout' # stdout => pc \in {"start", "zip_walk", "ck_write", "summary", "done", "failed"}
    /\ pc' = "failed" => stFiles \subseteq stFiles' /\ stDirs \subseteq stDirs'

\* C9: the stages run in their fixed order, a failure stops the run at once,
\* no later stage writes anything, and nothing staged is rolled back.
C9_FailFastInOrder == []C9_NoLaterOutput /\ [][C9_StageOrder]_vars

\* A run failed while writing the archive: the staged files are still there,
\* and the manifest is the one an earlier run left.
C9_Witness ==
    /\ pc = "failed"
    /\ failedAt = "zip_walk"
    /\ Generated \subseteq stFiles
    /\ ckState = "written"
    /\ "success" \notin stdout

\* C10: once a run has completed the generation stage, and for the rest of the
\* run, build_unix.sh is staged with the executable bit and build_windows.bat
\* is staged without it.
C10_ExecutableBits ==
    GenerationDone =>
        /\ unix_build \in stFiles
        /\ unix_build \in stExec
        /\ windows_build \in stFiles
        /\ windows_build \notin stExec

\* A run completed over a staging tree in which build_windows.bat was
\* executable.
C10_Witness ==
    /\ pc = "done"
    /\ staleAtStart
    /\ unix_build \in stExec
    /\ windows_build \notin stExec

====
